---- MODULE Spec2Model ----
(***************************************************************************)
(* The configuration options of dms3-p2p/go-p2p (options.go, defaults.go)  *)
(* as a state machine: a Config record that an ordered sequence of Options *)
(* mutates, followed by the FallbackDefaults pass that New appends.        *)
(*                                                                         *)
(* An Option is a Go closure func(cfg *Config) error.  Here it is an       *)
(* operator taking the Config and returning a result record                *)
(*     [cfg |-> the Config after the call, err |-> the error returned,     *)
(*      calls |-> the Option closures invoked, in the order they return].  *)
(***************************************************************************)
EXTENDS Integers, Sequences, FiniteSets, TLC

\* ------------------------------------------------------------------ bounds
\* Number of user options handed to New before the appended FallbackDefaults.
MaxOpts == 2
\* Largest number of addresses one ListenAddrs / ListenAddrStrings call carries.
MaxAddrs == 2

\* ------------------------------------------------------------------ values
\* Go's nil for interface and func values, and the nil error.
Nil == "nil"
NilErr == "nil"

\* Values a single-value option may carry: nil or one of two distinct objects.
Vals == {Nil, "v1", "v2"}

\* A Go slice: nil, or non-nil with elements (possibly none).
NilSlice == [isnil |-> TRUE, elems |-> <<>>]
EmptySlice == [isnil |-> FALSE, elems |-> <<>>]

\* Go's append(s, xs...): appending nothing returns s itself (nil stays nil).
GoAppend(s, xs) ==
    IF Len(xs) = 0 THEN s ELSE [isnil |-> FALSE, elems |-> s.elems \o xs]

\* len(s)
GoLen(s) == Len(s.elems)

\* The error strings of the options.
ErrMultiIdentity == "cannot specify multiple identities"
ErrMultiPeerstore == "cannot specify multiple peerstore options"
ErrMultiProtector == "cannot specify multiple private network options"
ErrMultiReporter == "cannot specify multiple bandwidth reporter options"
ErrMultiConnManager == "cannot specify multiple connection managers"
ErrMultiAddrsFactory == "cannot specify multiple address factories"
ErrMultiNATManager == "cannot specify multiple NATManagers"
ErrInsecure == "cannot use security transports with an insecure dms3-p2p configuration"
ErrShape == "constructor shape mismatch"
ErrParse == "invalid multiaddr"
ErrKeyGen == "key generation failed"

MultiErrs ==
    {ErrMultiIdentity, ErrMultiPeerstore, ErrMultiProtector, ErrMultiReporter,
     ErrMultiConnManager, ErrMultiAddrsFactory, ErrMultiNATManager}

\* ------------------------------------------------------------------ Config
\* var cfg Config: the zero value of the struct.
ZeroConfig ==
    [PeerKey |-> Nil,
     ListenAddrs |-> NilSlice,
     Transports |-> NilSlice,
     Muxers |-> NilSlice,
     SecurityTransports |-> NilSlice,
     Insecure |-> FALSE,
     Peerstore |-> Nil,
     Protector |-> Nil,
     Reporter |-> Nil,
     ConnManager |-> Nil,
     AddrsFactory |-> Nil,
     Relay |-> FALSE,
     RelayOpts |-> NilSlice,
     Filters |-> [isnil |-> TRUE, nets |-> {}],
     NATManager |-> Nil]

\* ------------------------------------------------------------------ results
\* One entry of the call log: closure opt, carrying val, returned err.
Call(opt, val, err) == [opt |-> opt, val |-> val, err |-> err]

\* A closure that returned nil / an error.
Ok(cfg, opt, val) ==
    [cfg |-> cfg, err |-> NilErr, calls |-> <<Call(opt, val, NilErr)>>]
Fail(cfg, e, opt, val) ==
    [cfg |-> cfg, err |-> e, calls |-> <<Call(opt, val, e)>>]

\* ------------------------------------------------------------------ external
\* multiaddr.NewMultiaddr: parses an address string into a Multiaddr.
AddrStrings == {"/ip4/0.0.0.0/tcp/0", "/ip6/::/tcp/0", "/ip4/127.0.0.1/tcp/9000", "garbage"}
NewMultiaddr(s) ==
    CASE s = "/ip4/0.0.0.0/tcp/0" -> [addr |-> <<"ip4", "0.0.0.0", "tcp", "0">>, err |-> NilErr]
      [] s = "/ip6/::/tcp/0" -> [addr |-> <<"ip6", "::", "tcp", "0">>, err |-> NilErr]
      [] s = "/ip4/127.0.0.1/tcp/9000" -> [addr |-> <<"ip4", "127.0.0.1", "tcp", "9000">>, err |-> NilErr]
      [] OTHER -> [addr |-> <<>>, err |-> ErrParse]

defaultIP4ListenAddr == <<"ip4", "0.0.0.0", "tcp", "0">>
defaultIP6ListenAddr == <<"ip6", "::", "tcp", "0">>
loopbackListenAddr == <<"ip4", "127.0.0.1", "tcp", "9000">>

\* config.TransportConstructor / MuxerConstructor / SecurityConstructor followed by
\* traceError: a value of the right shape is adapted, any other is an error.
BadCtor == "func(){}"
TransportConstructor(tpt) ==
    IF tpt = BadCtor THEN [c |-> <<>>, err |-> ErrShape]
    ELSE [c |-> <<"TptC", tpt>>, err |-> NilErr]
MuxerConstructor(tpt) ==
    IF tpt = BadCtor THEN [c |-> <<>>, err |-> ErrShape]
    ELSE [c |-> <<"MuxC", tpt>>, err |-> NilErr]
SecurityConstructor(tpt) ==
    IF tpt = BadCtor THEN [c |-> <<>>, err |-> ErrShape]
    ELSE [c |-> <<"SecC", tpt>>, err |-> NilErr]

\* ------------------------------------------------------------------ options
\* ListenAddrStrings: the loop over s from index i, appending each parsed address.
RECURSIVE ListenAddrStringsFrom(_, _, _)
ListenAddrStringsFrom(s, i, cfg) ==
    IF i > Len(s) THEN [cfg |-> cfg, err |-> NilErr]
    ELSE LET a == NewMultiaddr(s[i]) IN
         IF a.err # NilErr THEN [cfg |-> cfg, err |-> a.err]
         ELSE ListenAddrStringsFrom(s, i + 1,
                  [cfg EXCEPT !.ListenAddrs = GoAppend(@, <<a.addr>>)])

ListenAddrStrings(s, cfg) ==
    LET r == ListenAddrStringsFrom(s, 1, cfg) IN
    [cfg |-> r.cfg, err |-> r.err, calls |-> <<Call("ListenAddrStrings", "", r.err)>>]

ListenAddrs(addrs, cfg) ==
    Ok([cfg EXCEPT !.ListenAddrs = GoAppend(@, addrs)], "ListenAddrs", "")

\* Faulty variant: Security without the check of cfg.Insecure.
SecurityUnchecked(name, tpt, cfg) ==
    LET stpt == SecurityConstructor(tpt) IN
    IF stpt.err # NilErr THEN Fail(cfg, stpt.err, "Security", "")
    ELSE Ok([cfg EXCEPT !.SecurityTransports =
                 GoAppend(@, <<[SecC |-> stpt.c, ID |-> name]>>)], "Security", "")

Security(name, tpt, cfg) ==
    LET stpt == SecurityConstructor(tpt) IN
    IF stpt.err # NilErr THEN Fail(cfg, stpt.err, "Security", "")
    ELSE IF cfg.Insecure THEN Fail(cfg, ErrInsecure, "Security", "")
    ELSE Ok([cfg EXCEPT !.SecurityTransports =
                 GoAppend(@, <<[SecC |-> stpt.c, ID |-> name]>>)], "Security", "")

\* Faulty variant: NoSecurity without the check of cfg.SecurityTransports.
NoSecurityUnchecked(cfg) == Ok([cfg EXCEPT !.Insecure = TRUE], "NoSecurity", "")

NoSecurity(cfg) ==
    IF GoLen(cfg.SecurityTransports) > 0 THEN Fail(cfg, ErrInsecure, "NoSecurity", "")
    ELSE Ok([cfg EXCEPT !.Insecure = TRUE], "NoSecurity", "")

Muxer(name, tpt, cfg) ==
    LET mtpt == MuxerConstructor(tpt) IN
    IF mtpt.err # NilErr THEN Fail(cfg, mtpt.err, "Muxer", "")
    ELSE Ok([cfg EXCEPT !.Muxers =
                 GoAppend(@, <<[MuxC |-> mtpt.c, ID |-> name]>>)], "Muxer", "")

\* Faulty variant: Transport dropping the constructor's error.
TransportUnchecked(tpt, cfg) ==
    Ok([cfg EXCEPT !.Transports = GoAppend(@, <<TransportConstructor(tpt).c>>)],
       "Transport", "")

Transport(tpt, cfg) ==
    LET tptc == TransportConstructor(tpt) IN
    IF tptc.err # NilErr THEN Fail(cfg, tptc.err, "Transport", "")
    ELSE Ok([cfg EXCEPT !.Transports = GoAppend(@, <<tptc.c>>)], "Transport", "")

Peerstore(ps, cfg) ==
    IF cfg.Peerstore # Nil THEN Fail(cfg, ErrMultiPeerstore, "Peerstore", ps)
    ELSE Ok([cfg EXCEPT !.Peerstore = ps], "Peerstore", ps)

PrivateNetwork(prot, cfg) ==
    IF cfg.Protector # Nil THEN Fail(cfg, ErrMultiProtector, "PrivateNetwork", prot)
    ELSE Ok([cfg EXCEPT !.Protector = prot], "PrivateNetwork", prot)

BandwidthReporter(rep, cfg) ==
    IF cfg.Reporter # Nil THEN Fail(cfg, ErrMultiReporter, "BandwidthReporter", rep)
    ELSE Ok([cfg EXCEPT !.Reporter = rep], "BandwidthReporter", rep)

Identity(sk, cfg) ==
    IF cfg.PeerKey # Nil THEN Fail(cfg, ErrMultiIdentity, "Identity", sk)
    ELSE Ok([cfg EXCEPT !.PeerKey = sk], "Identity", sk)

ConnectionManager(connman, cfg) ==
    IF cfg.ConnManager # Nil THEN Fail(cfg, ErrMultiConnManager, "ConnectionManager", connman)
    ELSE Ok([cfg EXCEPT !.ConnManager = connman], "ConnectionManager", connman)

AddrsFactory(factory, cfg) ==
    IF cfg.AddrsFactory # Nil THEN Fail(cfg, ErrMultiAddrsFactory, "AddrsFactory", factory)
    ELSE Ok([cfg EXCEPT !.AddrsFactory = factory], "AddrsFactory", factory)

\* options is the variadic slice: nil when EnableRelay() is called without arguments.
EnableRelay(options, cfg) ==
    Ok([cfg EXCEPT !.Relay = TRUE, !.RelayOpts = options], "EnableRelay", "")

\* addrs is the set of nets the call carries (AddDialFilter of each).
FilterAddresses(addrs, cfg) ==
    Ok([cfg EXCEPT !.Filters = [isnil |-> FALSE, nets |-> @.nets \cup addrs]],
       "FilterAddresses", "")

NATManager(nm, cfg) ==
    IF cfg.NATManager # Nil THEN Fail(cfg, ErrMultiNATManager, "NATManager", nm)
    ELSE Ok([cfg EXCEPT !.NATManager = nm], "NATManager", nm)

NATPortMap(cfg) == NATManager("bhost.NewNATManager", cfg)

\* Faulty variant: NoListenAddrs assigning nil instead of an empty slice.
NoListenAddrsNil(cfg) == Ok([cfg EXCEPT !.ListenAddrs = NilSlice], "NoListenAddrs", "")

NoListenAddrs(cfg) == Ok([cfg EXCEPT !.ListenAddrs = EmptySlice], "NoListenAddrs", "")

\* Faulty variant: NoTransports assigning nil instead of an empty slice.
NoTransportsNil(cfg) == Ok([cfg EXCEPT !.Transports = NilSlice], "NoTransports", "")

NoTransports(cfg) == Ok([cfg EXCEPT !.Transports = EmptySlice], "NoTransports", "")

\* ------------------------------------------------------------------ chaining
\* An aggregate closure returning: its own entry follows those of the calls it made.
Returned(opt, r) ==
    [cfg |-> r.cfg, err |-> r.err, calls |-> Append(r.calls, Call(opt, "", r.err))]

\* One more iteration of "for _, opt := range opts { if err := opt(cfg); err != nil
\* { return err } }": r is what the options so far returned and q what the next
\* one returns on the Config r left; q counts only if r did not fail.
AndThen(r, q) ==
    IF r.err # NilErr THEN r
    ELSE [cfg |-> q.cfg, err |-> q.err, calls |-> r.calls \o q.calls]

\* ------------------------------------------------------------------ defaults
\* The outcomes of crypto.GenerateKeyPairWithReader(crypto.RSA, 2048, rand.Reader).
KeyGens == {[priv |-> "rsa2048", err |-> NilErr], [priv |-> Nil, err |-> ErrKeyGen]}

DefaultSecurity(cfg) == Security("/secio/1.0.0", "secio.New", cfg)

DefaultMuxers(cfg) ==
    Returned("DefaultMuxers",
        LET r == Muxer("/yamux/1.0.0", "yamux.DefaultTransport", cfg) IN
        AndThen(r, Muxer("/mplex/6.7.0", "mplex.DefaultTransport", r.cfg)))

DefaultTransports(cfg) ==
    Returned("DefaultTransports",
        LET r == Transport("tcp.NewTCPTransport", cfg) IN
        AndThen(r, Transport("ws.New", r.cfg)))

\* Faulty variant: DefaultPeerstore passing no peerstore on.
DefaultPeerstoreNil(cfg) ==
    Returned("DefaultPeerstore", Peerstore(Nil, cfg))

DefaultPeerstore(cfg) ==
    Returned("DefaultPeerstore", Peerstore("pstore.NewPeerstore()", cfg))

RandomIdentity(gen, cfg) ==
    IF gen.err # NilErr THEN Fail(cfg, gen.err, "RandomIdentity", "")
    ELSE Returned("RandomIdentity", Identity(gen.priv, cfg))

\* Faulty variant: DefaultListenAddrs passing only the IPv4 address on.
DefaultListenAddrsIP4Only(cfg) ==
    LET ip4 == NewMultiaddr("/ip4/0.0.0.0/tcp/0") IN
    IF ip4.err # NilErr THEN Fail(cfg, ip4.err, "DefaultListenAddrs", "")
    ELSE Returned("DefaultListenAddrs", ListenAddrs(<<ip4.addr>>, cfg))

DefaultListenAddrs(cfg) ==
    LET ip4 == NewMultiaddr("/ip4/0.0.0.0/tcp/0")
        ip6 == NewMultiaddr("/ip6/::/tcp/0")
    IN  IF ip4.err # NilErr THEN Fail(cfg, ip4.err, "DefaultListenAddrs", "")
        ELSE IF ip6.err # NilErr THEN Fail(cfg, ip6.err, "DefaultListenAddrs", "")
        ELSE Returned("DefaultListenAddrs", ListenAddrs(<<ip4.addr, ip6.addr>>, cfg))

\* The defaults table: entry i's fallback predicate and option.
NumDefaults == 6

\* Faulty variant: the listen-address predicate not looking at the transports.
DefaultsFallbackUncoupled(i, cfg) ==
    CASE i = 1 -> cfg.ListenAddrs.isnil
      [] i = 2 -> cfg.Transports.isnil
      [] i = 3 -> cfg.Muxers.isnil
      [] i = 4 -> ~cfg.Insecure /\ cfg.SecurityTransports.isnil
      [] i = 5 -> cfg.PeerKey = Nil
      [] i = 6 -> cfg.Peerstore = Nil

\* Faulty variant: the security predicate not looking at Insecure.
DefaultsFallbackIgnoreInsecure(i, cfg) ==
    CASE i = 1 -> cfg.Transports.isnil /\ cfg.ListenAddrs.isnil
      [] i = 2 -> cfg.Transports.isnil
      [] i = 3 -> cfg.Muxers.isnil
      [] i = 4 -> cfg.SecurityTransports.isnil
      [] i = 5 -> cfg.PeerKey = Nil
      [] i = 6 -> cfg.Peerstore = Nil

\* Faulty variant: the identity predicate always true.
DefaultsFallbackAlwaysIdentity(i, cfg) ==
    CASE i = 1 -> cfg.Transports.isnil /\ cfg.ListenAddrs.isnil
      [] i = 2 -> cfg.Transports.isnil
      [] i = 3 -> cfg.Muxers.isnil
      [] i = 4 -> ~cfg.Insecure /\ cfg.SecurityTransports.isnil
      [] i = 5 -> TRUE
      [] i = 6 -> cfg.Peerstore = Nil

\* Faulty variant: the security predicate looking only at Insecure.
DefaultsFallbackSecurityUnlessInsecure(i, cfg) ==
    CASE i = 1 -> cfg.Transports.isnil /\ cfg.ListenAddrs.isnil
      [] i = 2 -> cfg.Transports.isnil
      [] i = 3 -> cfg.Muxers.isnil
      [] i = 4 -> ~cfg.Insecure
      [] i = 5 -> cfg.PeerKey = Nil
      [] i = 6 -> cfg.Peerstore = Nil

\* Faulty variant: the muxer predicate always true.
DefaultsFallbackAlwaysMuxers(i, cfg) ==
    CASE i = 1 -> cfg.Transports.isnil /\ cfg.ListenAddrs.isnil
      [] i = 2 -> cfg.Transports.isnil
      [] i = 3 -> TRUE
      [] i = 4 -> ~cfg.Insecure /\ cfg.SecurityTransports.isnil
      [] i = 5 -> cfg.PeerKey = Nil
      [] i = 6 -> cfg.Peerstore = Nil

\* Faulty variant: the transport predicate also requiring no listen address.
DefaultsFallbackTransportsCoupled(i, cfg) ==
    CASE i = 1 -> cfg.Transports.isnil /\ cfg.ListenAddrs.isnil
      [] i = 2 -> cfg.Transports.isnil /\ cfg.ListenAddrs.isnil
      [] i = 3 -> cfg.Muxers.isnil
      [] i = 4 -> ~cfg.Insecure /\ cfg.SecurityTransports.isnil
      [] i = 5 -> cfg.PeerKey = Nil
      [] i = 6 -> cfg.Peerstore = Nil

\* Faulty variant: the peerstore predicate also requiring no identity.
DefaultsFallbackCoupledPeerstore(i, cfg) ==
    CASE i = 1 -> cfg.Transports.isnil /\ cfg.ListenAddrs.isnil
      [] i = 2 -> cfg.Transports.isnil
      [] i = 3 -> cfg.Muxers.isnil
      [] i = 4 -> ~cfg.Insecure /\ cfg.SecurityTransports.isnil
      [] i = 5 -> cfg.PeerKey = Nil
      [] i = 6 -> cfg.Peerstore = Nil /\ cfg.PeerKey = Nil

DefaultsFallback(i, cfg) ==
    CASE i = 1 -> cfg.Transports.isnil /\ cfg.ListenAddrs.isnil
      [] i = 2 -> cfg.Transports.isnil
      [] i = 3 -> cfg.Muxers.isnil
      [] i = 4 -> ~cfg.Insecure /\ cfg.SecurityTransports.isnil
      [] i = 5 -> cfg.PeerKey = Nil
      [] i = 6 -> cfg.Peerstore = Nil

DefaultsOpt(i, gen, cfg) ==
    CASE i = 1 -> DefaultListenAddrs(cfg)
      [] i = 2 -> DefaultTransports(cfg)
      [] i = 3 -> DefaultMuxers(cfg)
      [] i = 4 -> DefaultSecurity(cfg)
      [] i = 5 -> RandomIdentity(gen, cfg)
      [] i = 6 -> DefaultPeerstore(cfg)

\* Faulty variant: the loop of Defaults going on after an entry failed.
RECURSIVE DefaultsFromNoStop(_, _, _)
DefaultsFromNoStop(i, gen, cfg) ==
    IF i > NumDefaults THEN [cfg |-> cfg, err |-> NilErr, calls |-> <<>>]
    ELSE LET r == DefaultsOpt(i, gen, cfg)
             q == DefaultsFromNoStop(i + 1, gen, r.cfg)
         IN  [cfg |-> q.cfg,
              err |-> IF r.err # NilErr THEN r.err ELSE q.err,
              calls |-> r.calls \o q.calls]

\* Faulty variant: the loop of Defaults skipping the entries whose predicate is false.
RECURSIVE DefaultsFromGuarded(_, _, _)
DefaultsFromGuarded(i, gen, cfg) ==
    IF i > NumDefaults THEN [cfg |-> cfg, err |-> NilErr, calls |-> <<>>]
    ELSE IF ~DefaultsFallback(i, cfg) THEN DefaultsFromGuarded(i + 1, gen, cfg)
    ELSE LET r == DefaultsOpt(i, gen, cfg) IN
         AndThen(r, DefaultsFromGuarded(i + 1, gen, r.cfg))

\* Defaults: the loop over the table from entry i.
RECURSIVE DefaultsFrom(_, _, _)
DefaultsFrom(i, gen, cfg) ==
    IF i > NumDefaults THEN [cfg |-> cfg, err |-> NilErr, calls |-> <<>>]
    ELSE LET r == DefaultsOpt(i, gen, cfg) IN
         AndThen(r, DefaultsFrom(i + 1, gen, r.cfg))

Defaults(gen, cfg) == Returned("Defaults", DefaultsFrom(1, gen, cfg))

\* Faulty variant: the loop of FallbackDefaults not looking at the predicates.
RECURSIVE FallbackDefaultsFromAlways(_, _, _)
FallbackDefaultsFromAlways(i, gen, cfg) ==
    IF i > NumDefaults THEN [cfg |-> cfg, err |-> NilErr, calls |-> <<>>]
    ELSE LET r == DefaultsOpt(i, gen, cfg) IN
         AndThen(r, FallbackDefaultsFromAlways(i + 1, gen, r.cfg))

\* FallbackDefaults: the loop over the table from entry i.
RECURSIVE FallbackDefaultsFrom(_, _, _)
FallbackDefaultsFrom(i, gen, cfg) ==
    IF i > NumDefaults THEN [cfg |-> cfg, err |-> NilErr, calls |-> <<>>]
    ELSE IF ~DefaultsFallback(i, cfg) THEN FallbackDefaultsFrom(i + 1, gen, cfg)
    ELSE LET r == DefaultsOpt(i, gen, cfg) IN
         AndThen(r, FallbackDefaultsFrom(i + 1, gen, r.cfg))

FallbackDefaults(gen, cfg) == Returned("FallbackDefaults", FallbackDefaultsFrom(1, gen, cfg))

\* ------------------------------------------------------------------ state
VARIABLES
    cfg,    \* the Config being built
    err,    \* the error Apply has returned so far (NilErr while none)
    phase,  \* "applying" the options, "aborted" by an error, or "assembling"
    n,      \* number of user options applied
    last,   \* the last option applied: what it was and the state it was applied to
    hist    \* which option closures have been invoked so far

vars == <<cfg, err, phase, n, last, hist>>

\* The single-value option constructors and the Config field each one guards.
SlotOpts ==
    {"Identity", "Peerstore", "PrivateNetwork", "BandwidthReporter",
     "ConnectionManager", "AddrsFactory", "NATManager"}
SlotOf(opt) ==
    CASE opt = "Identity" -> "PeerKey"
      [] opt = "Peerstore" -> "Peerstore"
      [] opt = "PrivateNetwork" -> "Protector"
      [] opt = "BandwidthReporter" -> "Reporter"
      [] opt = "ConnectionManager" -> "ConnManager"
      [] opt = "AddrsFactory" -> "AddrsFactory"
      [] opt = "NATManager" -> "NATManager"
SlotErr(opt) ==
    CASE opt = "Identity" -> ErrMultiIdentity
      [] opt = "Peerstore" -> ErrMultiPeerstore
      [] opt = "PrivateNetwork" -> ErrMultiProtector
      [] opt = "BandwidthReporter" -> ErrMultiReporter
      [] opt = "ConnectionManager" -> ErrMultiConnManager
      [] opt = "AddrsFactory" -> ErrMultiAddrsFactory
      [] opt = "NATManager" -> ErrMultiNATManager
Slots == {SlotOf(o) : o \in SlotOpts}

ListenOpts == {"ListenAddrs", "ListenAddrStrings", "NoListenAddrs"}
TransportOpts == {"Transport", "NoTransports"}

\* History of the closures invoked: nothing yet.
NoHist ==
    [listenOpt |-> FALSE,     \* a listen-address option was applied
     tptOpt |-> FALSE,        \* a transport option was applied
     tptOk |-> FALSE,         \* a Transport option was applied and returned nil
     noTptLast |-> FALSE,     \* NoTransports was applied, and no Transport since
     noListenLast |-> FALSE,  \* NoListenAddrs was applied, and no other listen option since
     muxOpt |-> FALSE,        \* a Muxer option was applied
     secOpt |-> FALSE,        \* a Security option or NoSecurity was applied
     noSec |-> FALSE,         \* NoSecurity was applied and returned nil
     defaulted |-> FALSE,     \* Defaults was applied and returned nil
     fellBack |-> FALSE,      \* FallbackDefaults was applied and returned nil
     first |-> [s \in Slots |-> "none"],     \* value of the first option applied to a slot
     firstSet |-> [s \in Slots |-> "none"]]  \* value of the first one carrying non-nil

HistCall(h, c) ==
    [listenOpt |-> h.listenOpt \/ c.opt \in ListenOpts,
     tptOpt |-> h.tptOpt \/ c.opt \in TransportOpts,
     tptOk |-> h.tptOk \/ (c.opt = "Transport" /\ c.err = NilErr),
     noTptLast |-> IF c.opt = "NoTransports" THEN TRUE
                   ELSE IF c.opt = "Transport" THEN FALSE ELSE h.noTptLast,
     noListenLast |-> IF c.opt = "NoListenAddrs" THEN TRUE
                      ELSE IF c.opt \in ListenOpts THEN FALSE ELSE h.noListenLast,
     muxOpt |-> h.muxOpt \/ c.opt = "Muxer",
     secOpt |-> h.secOpt \/ c.opt \in {"Security", "NoSecurity"},
     noSec |-> h.noSec \/ (c.opt = "NoSecurity" /\ c.err = NilErr),
     defaulted |-> h.defaulted \/ (c.opt = "Defaults" /\ c.err = NilErr),
     fellBack |-> h.fellBack \/ (c.opt = "FallbackDefaults" /\ c.err = NilErr),
     first |-> IF c.opt \in SlotOpts /\ h.first[SlotOf(c.opt)] = "none"
               THEN [h.first EXCEPT ![SlotOf(c.opt)] = c.val] ELSE h.first,
     firstSet |-> IF c.opt \in SlotOpts /\ h.firstSet[SlotOf(c.opt)] = "none" /\ c.val # Nil
                  THEN [h.firstSet EXCEPT ![SlotOf(c.opt)] = c.val] ELSE h.firstSet]

RECURSIVE HistAfter(_, _)
HistAfter(h, calls) ==
    IF calls = <<>> THEN h ELSE HistAfter(HistCall(h, Head(calls)), Tail(calls))

NoLast ==
    [opt |-> "none", val |-> "", bad |-> FALSE, final |-> FALSE,
     pre |-> ZeroConfig, hist |-> NoHist, calls |-> <<>>]

Init ==
    /\ cfg = ZeroConfig
    /\ err = NilErr
    /\ phase = "applying"
    /\ n = 0
    /\ last = NoLast
    /\ hist = NoHist

\* One iteration of cfg.Apply(opts...) in NewWithoutDefaults: the next user option
\* opt (carrying val; bad when built from a constructor of the wrong shape) returns r.
Apply(opt, val, bad, r) ==
    /\ phase = "applying"
    /\ n < MaxOpts
    /\ cfg' = r.cfg
    /\ err' = r.err
    /\ phase' = IF r.err = NilErr THEN "applying" ELSE "aborted"
    /\ n' = n + 1
    /\ last' = [opt |-> opt, val |-> val, bad |-> bad, final |-> FALSE,
                pre |-> cfg, hist |-> hist, calls |-> r.calls]
    /\ hist' = HistAfter(hist, r.calls)

\* New: FallbackDefaults is appended to the options; when it returns nil the
\* Config goes to the assembler (cfg.NewNode).
ApplyFinalFallback ==
    /\ phase = "applying"
    /\ \E gen \in KeyGens :
         LET r == FallbackDefaults(gen, cfg) IN
         /\ cfg' = r.cfg
         /\ err' = r.err
         /\ phase' = IF r.err = NilErr THEN "assembling" ELSE "aborted"
         /\ last' = [opt |-> "FallbackDefaults", val |-> "", bad |-> FALSE, final |-> TRUE,
                     pre |-> cfg, hist |-> hist, calls |-> r.calls]
         /\ hist' = HistAfter(hist, r.calls)
    /\ n' = n

\* ------------------------------------------------------------------ inputs
SeqsUpTo(S, k) == UNION {[1..m -> S] : m \in 0..k}
UserAddrs == {loopbackListenAddr, defaultIP4ListenAddr}
UserAddrStrings == {"/ip4/127.0.0.1/tcp/9000", "garbage"}
TransportCtors == {"tcp.NewTCPTransport", "custom.NewTransport", BadCtor}
MuxerCtors == {"yamux.DefaultTransport", BadCtor}
SecurityCtors == {"secio.New", BadCtor}
RelayOptSlices == {NilSlice, [isnil |-> FALSE, elems |-> <<"circuit.OptHop">>]}
FilterNets == {{}, {"10.0.0.0/8"}}

\* ------------------------------------------------------------------ actions
DoListenAddrStrings ==
    \E s \in SeqsUpTo(UserAddrStrings, MaxAddrs) :
        Apply("ListenAddrStrings", "", FALSE, ListenAddrStrings(s, cfg))
DoListenAddrs ==
    \E addrs \in SeqsUpTo(UserAddrs, MaxAddrs) :
        Apply("ListenAddrs", "", FALSE, ListenAddrs(addrs, cfg))
DoSecurity ==
    \E tpt \in SecurityCtors :
        Apply("Security", "", tpt = BadCtor, Security("/custom-sec/1.0.0", tpt, cfg))
DoNoSecurity == Apply("NoSecurity", "", FALSE, NoSecurity(cfg))
DoMuxer ==
    \E tpt \in MuxerCtors :
        Apply("Muxer", "", tpt = BadCtor, Muxer("/custom-mux/1.0.0", tpt, cfg))
DoTransport ==
    \E tpt \in TransportCtors :
        Apply("Transport", "", tpt = BadCtor, Transport(tpt, cfg))
DoPeerstore == \E v \in Vals : Apply("Peerstore", v, FALSE, Peerstore(v, cfg))
DoPrivateNetwork == \E v \in Vals : Apply("PrivateNetwork", v, FALSE, PrivateNetwork(v, cfg))
DoBandwidthReporter ==
    \E v \in Vals : Apply("BandwidthReporter", v, FALSE, BandwidthReporter(v, cfg))
DoIdentity == \E v \in Vals : Apply("Identity", v, FALSE, Identity(v, cfg))
DoConnectionManager ==
    \E v \in Vals : Apply("ConnectionManager", v, FALSE, ConnectionManager(v, cfg))
DoAddrsFactory == \E v \in Vals : Apply("AddrsFactory", v, FALSE, AddrsFactory(v, cfg))
DoEnableRelay ==
    \E o \in RelayOptSlices : Apply("EnableRelay", "", FALSE, EnableRelay(o, cfg))
DoFilterAddresses ==
    \E a \in FilterNets : Apply("FilterAddresses", "", FALSE, FilterAddresses(a, cfg))
DoNATPortMap == Apply("NATManager", "bhost.NewNATManager", FALSE, NATPortMap(cfg))
DoNATManager == \E v \in Vals : Apply("NATManager", v, FALSE, NATManager(v, cfg))
DoNoListenAddrs == Apply("NoListenAddrs", "", FALSE, NoListenAddrs(cfg))
DoNoTransports == Apply("NoTransports", "", FALSE, NoTransports(cfg))
DoDefaultSecurity == Apply("DefaultSecurity", "", FALSE, DefaultSecurity(cfg))
DoDefaultMuxers == Apply("DefaultMuxers", "", FALSE, DefaultMuxers(cfg))
DoDefaultTransports == Apply("DefaultTransports", "", FALSE, DefaultTransports(cfg))
DoDefaultPeerstore == Apply("DefaultPeerstore", "", FALSE, DefaultPeerstore(cfg))
DoRandomIdentity ==
    \E gen \in KeyGens : Apply("RandomIdentity", "", FALSE, RandomIdentity(gen, cfg))
DoDefaultListenAddrs == Apply("DefaultListenAddrs", "", FALSE, DefaultListenAddrs(cfg))
DoDefaults == \E gen \in KeyGens : Apply("Defaults", "", FALSE, Defaults(gen, cfg))
DoFallbackDefaults ==
    \E gen \in KeyGens : Apply("FallbackDefaults", "", FALSE, FallbackDefaults(gen, cfg))

Next ==
    \/ DoListenAddrStrings \/ DoListenAddrs
    \/ DoSecurity \/ DoNoSecurity \/ DoMuxer \/ DoTransport
    \/ DoPeerstore \/ DoPrivateNetwork \/ DoBandwidthReporter \/ DoIdentity
    \/ DoConnectionManager \/ DoAddrsFactory
    \/ DoEnableRelay \/ DoFilterAddresses \/ DoNATPortMap \/ DoNATManager
    \/ DoNoListenAddrs \/ DoNoTransports
    \/ DoDefaultSecurity \/ DoDefaultMuxers \/ DoDefaultTransports
    \/ DoDefaultPeerstore \/ DoRandomIdentity \/ DoDefaultListenAddrs
    \/ DoDefaults \/ DoFallbackDefaults
    \/ ApplyFinalFallback

Spec == Init /\ [][Next]_vars

\* ------------------------------------------------------------------ claims
\* The calls of the last option applied.
LastCalls == {last.calls[i] : i \in DOMAIN last.calls}
\* The last option applied was a FallbackDefaults pass (a user's or the one New appends).
AfterFallback == last.opt = "FallbackDefaults"

\* C1: applying a single-value option to a slot to which an earlier option was
\* already applied returns that slot's "cannot specify multiple ..." error and
\* leaves the slot holding the value of the first option, whatever the values.
C1_SecondApplicationFails ==
    \A c \in LastCalls :
        (c.opt \in SlotOpts /\ last.hist.first[SlotOf(c.opt)] # "none") =>
            /\ c.err = SlotErr(c.opt)
            /\ err = SlotErr(c.opt)
            /\ cfg[SlotOf(c.opt)] = last.hist.first[SlotOf(c.opt)]

\* C1 for options carrying non-nil values: an option for a slot to which an
\* earlier option carrying a non-nil value was applied returns the slot's error
\* and leaves that first non-nil value in the slot; otherwise it returns nil
\* and the slot holds the value it carried.
C1_NonNilSecondApplicationFails ==
    \A c \in LastCalls :
        c.opt \in SlotOpts =>
            IF last.hist.firstSet[SlotOf(c.opt)] # "none"
            THEN /\ c.err = SlotErr(c.opt)
                 /\ err = SlotErr(c.opt)
                 /\ cfg[SlotOf(c.opt)] = last.hist.firstSet[SlotOf(c.opt)]
            ELSE c.err = NilErr /\ cfg[SlotOf(c.opt)] = c.val

\* C2: Insecure is never true while the security-transport sequence is non-empty.
C2_InsecureExcludesSecurity ==
    ~(cfg.Insecure /\ GoLen(cfg.SecurityTransports) > 0)

\* A security option was refused because the Config is insecure, or NoSecurity
\* because security transports are registered.
C2_Witness ==
    /\ err = ErrInsecure
    /\ \/ cfg.Insecure /\ last.opt \in {"Security", "DefaultSecurity", "Defaults"}
       \/ GoLen(cfg.SecurityTransports) > 0 /\ last.opt = "NoSecurity"

\* C3: NoSecurity applied when a security transport exists returns an error, a
\* Security option applied when Insecure is true returns an error, and in both
\* orders the failing option leaves the Config unchanged.
C3_MutualExclusionErrors ==
    /\ (last.opt = "NoSecurity" /\ GoLen(last.pre.SecurityTransports) > 0) =>
           (err = ErrInsecure /\ cfg = last.pre)
    /\ (last.opt \in {"Security", "DefaultSecurity"} /\ last.pre.Insecure) =>
           (err # NilErr /\ cfg = last.pre)
    /\ (last.opt \in {"Security", "DefaultSecurity"} /\ last.pre.Insecure /\ ~last.bad) =>
           err = ErrInsecure

\* A well-formed Security option was applied to an insecure Config.
C3_Witness ==
    /\ last.opt = "Security" /\ ~last.bad
    /\ last.pre.Insecure
    /\ err = ErrInsecure

\* C4: once NoTransports was applied with no Transport option after it, the
\* transport sequence is empty, a FallbackDefaults pass applies no Transport
\* option, and the Config handed to the assembler has zero transports.
C4_NoTransportsSuppressesDefault ==
    /\ last.opt = "NoTransports" => cfg.Transports = EmptySlice
    /\ hist.noTptLast => GoLen(cfg.Transports) = 0
    /\ (AfterFallback /\ last.hist.noTptLast) =>
           /\ \A c \in LastCalls : c.opt \notin {"Transport", "DefaultTransports"}
           /\ cfg.Transports = EmptySlice
    /\ (phase = "assembling" /\ last.hist.noTptLast) => GoLen(cfg.Transports) = 0

\* NoTransports cleared a configured transport and the Config reached the assembler.
C4_Witness ==
    /\ phase = "assembling"
    /\ last.hist.noTptLast /\ last.hist.tptOk
    /\ GoLen(cfg.Transports) = 0

\* C5: after a sequence with no transport option and no listen-address option,
\* FallbackDefaults leaves exactly the two built-in listen addresses,
\* /ip4/0.0.0.0/tcp/0 followed by /ip6/::/tcp/0.
C5_DefaultListenAddrs ==
    (AfterFallback /\ ~last.hist.tptOpt /\ ~last.hist.listenOpt) =>
        cfg.ListenAddrs.elems = <<defaultIP4ListenAddr, defaultIP6ListenAddr>>

\* The appended pass ran after a user option that is neither a transport nor a
\* listen-address option, and the Config reached the assembler.
C5_Witness ==
    /\ phase = "assembling"
    /\ ~last.hist.tptOpt /\ ~last.hist.listenOpt
    /\ last.pre # ZeroConfig
    /\ GoLen(cfg.ListenAddrs) = 2

\* C6: after a sequence that applied a Transport option and no listen-address
\* option, FallbackDefaults leaves the listen-address sequence with zero entries.
C6_CustomTransportNoListenAddrs ==
    (AfterFallback /\ last.hist.tptOk /\ ~last.hist.listenOpt) =>
        /\ GoLen(cfg.ListenAddrs) = 0
        /\ \A c \in LastCalls : c.opt \notin ListenOpts

\* The appended pass ran on a Config with a transport and never-set listen addresses.
C6_Witness ==
    /\ phase = "assembling"
    /\ last.hist.tptOk /\ ~last.hist.listenOpt
    /\ GoLen(cfg.Transports) > 0
    /\ cfg.ListenAddrs.isnil

\* C7: NoListenAddrs clears the listen addresses, and when no listen-address
\* option follows it a FallbackDefaults pass leaves zero listen addresses,
\* whatever transports are configured.
C7_NoListenAddrsSuppressesDefault ==
    /\ last.opt = "NoListenAddrs" => cfg.ListenAddrs = EmptySlice
    /\ hist.noListenLast => GoLen(cfg.ListenAddrs) = 0
    /\ (AfterFallback /\ last.hist.noListenLast) =>
           /\ GoLen(cfg.ListenAddrs) = 0
           /\ \A c \in LastCalls : c.opt \notin ListenOpts

\* The appended pass injected the default transports after NoListenAddrs and
\* still left no listen address.
C7_Witness ==
    /\ phase = "assembling"
    /\ last.hist.noListenLast
    /\ last.pre.Transports.isnil /\ GoLen(cfg.Transports) = 2
    /\ GoLen(cfg.ListenAddrs) = 0

\* C8: a Transport, Muxer or Security option built from a constructor of the
\* wrong shape returns the shape error whenever it is applied, leaves the
\* Config unchanged, and aborts the build: no fallback pass, no assembly.
C8_BadConstructorAborts ==
    last.bad =>
        /\ last.opt \in {"Transport", "Muxer", "Security"}
        /\ err = ErrShape
        /\ cfg = last.pre
        /\ phase = "aborted"
        /\ ~last.final

\* A badly shaped Security constructor was applied to an insecure Config that
\* earlier options had already changed.
C8_Witness ==
    /\ last.bad /\ last.opt = "Security"
    /\ last.pre.Insecure
    /\ err = ErrShape

\* The default-table entry an option name belongs to (0: none).
TableEntry(opt) ==
    CASE opt = "DefaultListenAddrs" -> 1
      [] opt = "DefaultTransports" -> 2
      [] opt = "DefaultMuxers" -> 3
      [] opt = "Security" -> 4
      [] opt = "RandomIdentity" -> 5
      [] opt = "DefaultPeerstore" -> 6
      [] OTHER -> 0
\* The closures that only call other options.
Aggregates ==
    {"DefaultMuxers", "DefaultTransports", "DefaultPeerstore", "RandomIdentity",
     "DefaultListenAddrs", "Defaults", "FallbackDefaults"}

\* C9: options are applied in order and the first error ends the application:
\* it is the error returned and nothing is applied after it, at the top level
\* and inside Defaults and FallbackDefaults, whose entries run in table order.
C9_FirstErrorEnds ==
    /\ (err # NilErr) = (phase = "aborted")
    /\ phase = "aborted" => ~ENABLED Next
    /\ err = NilErr => \A c \in LastCalls : c.err = NilErr
    /\ err # NilErr => last.calls[Len(last.calls)].err = err
    /\ \A i, j \in DOMAIN last.calls :
           (i < j /\ last.calls[i].err # NilErr) =>
               /\ last.calls[j].err = last.calls[i].err
               /\ last.calls[j].opt \in Aggregates
    /\ last.opt \in {"Defaults", "FallbackDefaults"} =>
           \A i, j \in DOMAIN last.calls :
               (i < j /\ TableEntry(last.calls[i].opt) > 0
                      /\ TableEntry(last.calls[j].opt) > 0) =>
                   TableEntry(last.calls[i].opt) < TableEntry(last.calls[j].opt)

\* Defaults failed at an entry in the middle of the table, after earlier entries
\* had been applied.
C9_Witness ==
    /\ last.opt = "Defaults"
    /\ err = ErrMultiIdentity
    /\ GoLen(cfg.Muxers) > 0
    /\ cfg.Peerstore = Nil

\* C10: whenever applying one Option returns an error, the Config is exactly
\* as it was before that Option was applied.
C10_FailuresAtomic ==
    err # NilErr => cfg = last.pre

\* The default-table entries whose option the last option applied.
EntriesApplied == {TableEntry(c.opt) : c \in LastCalls} \ {0}

\* Whether the caller applied an option relevant to the slot family of entry i:
\* the listen-address default is governed by listen-address and transport options.
RelevantApplied(i, h) ==
    CASE i = 1 -> h.listenOpt \/ h.tptOpt
      [] i = 2 -> h.tptOpt
      [] i = 3 -> h.muxOpt
      [] i = 4 -> h.secOpt
      [] i = 5 -> h.first["PeerKey"] # "none"
      [] i = 6 -> h.first["Peerstore"] # "none"

\* C11: a FallbackDefaults pass (that returns nil) applies the default of a
\* slot family if and only if no option relevant to that family was applied
\* before it, options carrying zero elements included.
C11_DefaultIffNoRelevantOption ==
    (AfterFallback /\ err = NilErr) =>
        \A i \in 1..NumDefaults :
            (i \in EntriesApplied) = ~RelevantApplied(i, last.hist)

\* What the loop of FallbackDefaults has done when it has processed entries 1..k.
RECURSIVE FallbackDefaultsUpTo(_, _, _)
FallbackDefaultsUpTo(k, gen, start) ==
    IF k = 0 THEN [cfg |-> start, err |-> NilErr, calls |-> <<>>]
    ELSE LET r == FallbackDefaultsUpTo(k - 1, gen, start) IN
         IF r.err # NilErr \/ ~DefaultsFallback(k, r.cfg) THEN r
         ELSE AndThen(r, DefaultsOpt(k, gen, r.cfg))

\* The key-generation outcome of the last option applied (it matters only when
\* RandomIdentity ran).
LastGen ==
    IF err = ErrKeyGen THEN [priv |-> Nil, err |-> ErrKeyGen]
    ELSE [priv |-> "rsa2048", err |-> NilErr]

\* The Config field the option of default-table entry i writes.
EntryField(i) ==
    CASE i = 1 -> "ListenAddrs"
      [] i = 2 -> "Transports"
      [] i = 3 -> "Muxers"
      [] i = 4 -> "SecurityTransports"
      [] i = 5 -> "PeerKey"
      [] i = 6 -> "Peerstore"
\* The Config fields no default-table entry writes.
NoDefaultFields ==
    {"Protector", "Reporter", "ConnManager", "AddrsFactory", "Relay", "RelayOpts",
     "Filters", "NATManager"}

\* C12: a FallbackDefaults pass leaves unchanged the field of every entry whose
\* predicate is false when the pass evaluates it, and every field that has no
\* default.
C12_FallbackKeepsConfigured ==
    AfterFallback =>
        /\ \A i \in 1..NumDefaults :
               LET r == FallbackDefaultsUpTo(i - 1, LastGen, last.pre) IN
               (r.err = NilErr /\ ~DefaultsFallback(i, r.cfg)) =>
                   cfg[EntryField(i)] = last.pre[EntryField(i)]
        /\ \A f \in NoDefaultFields : cfg[f] = last.pre[f]

\* The appended pass kept a caller's transport and NAT manager and filled in
\* the muxers.
C12_Witness ==
    /\ phase = "assembling"
    /\ GoLen(last.pre.Transports) = 1 /\ cfg.Transports = last.pre.Transports
    /\ last.pre.NATManager # Nil /\ cfg.NATManager = last.pre.NATManager
    /\ last.pre.Muxers.isnil /\ GoLen(cfg.Muxers) = 2

\* A Config with every default added to what it holds.
ExtendedByDefaults(c) ==
    [c EXCEPT
        !.ListenAddrs = GoAppend(@, <<defaultIP4ListenAddr, defaultIP6ListenAddr>>),
        !.Transports = GoAppend(@, <<<<"TptC", "tcp.NewTCPTransport">>, <<"TptC", "ws.New">>>>),
        !.Muxers = GoAppend(@, <<[MuxC |-> <<"MuxC", "yamux.DefaultTransport">>, ID |-> "/yamux/1.0.0"],
                                 [MuxC |-> <<"MuxC", "mplex.DefaultTransport">>, ID |-> "/mplex/6.7.0"]>>),
        !.SecurityTransports = GoAppend(@, <<[SecC |-> <<"SecC", "secio.New">>, ID |-> "/secio/1.0.0"]>>),
        !.PeerKey = "rsa2048",
        !.Peerstore = "pstore.NewPeerstore()"]

\* C13 as stated: Defaults added after a sequence of user options that applied
\* without error, or before an option that applies without error on its own,
\* applies without error (key generation permitting) and the Config holds every
\* default plus the user's choices.
C13_DefaultsAlwaysComposes ==
    /\ (last.opt = "Defaults" /\ err # ErrKeyGen) =>
           (err = NilErr /\ cfg = ExtendedByDefaults(last.pre))
    /\ (n = 2 /\ last.hist.defaulted /\ last.opt \in SlotOpts \cup {"NoSecurity"}) =>
           err = NilErr

\* C13 amended: Defaults applies the table entries in order whatever the Config
\* holds; it returns nil exactly when the Config is not insecure, holds no
\* identity and no peerstore and key generation succeeds, and then the Config
\* holds every default plus what it held; once Defaults has returned nil, an
\* Identity, Peerstore or NoSecurity option returns its error.
C13_DefaultsExtendsWhenNoConflict ==
    /\ last.opt = "Defaults" =>
           /\ {1, 2, 3} \subseteq EntriesApplied
           /\ err = (IF last.pre.Insecure THEN ErrInsecure
                     ELSE IF err = ErrKeyGen THEN ErrKeyGen
                     ELSE IF last.pre.PeerKey # Nil THEN ErrMultiIdentity
                     ELSE IF last.pre.Peerstore # Nil THEN ErrMultiPeerstore
                     ELSE NilErr)
           /\ err = NilErr =>
                  /\ EntriesApplied = 1..NumDefaults
                  /\ cfg = ExtendedByDefaults(last.pre)
    /\ last.hist.defaulted =>
           /\ last.opt = "Identity" => err = ErrMultiIdentity
           /\ last.opt = "Peerstore" => err = ErrMultiPeerstore
           /\ last.opt = "NoSecurity" => err = ErrInsecure

\* Defaults extended a Config that already held a caller's transport.
C13_Witness ==
    /\ last.opt = "Defaults" /\ err = NilErr
    /\ GoLen(last.pre.Transports) = 1 /\ GoLen(cfg.Transports) = 3
    /\ cfg.PeerKey = "rsa2048"

\* The pass applied the default security transport.
PassAppliedSecurity == \E c \in LastCalls : c.opt = "Security"

\* C15: after NoSecurity, a FallbackDefaults pass does not fail on the security
\* conflict (it returns nil unless key generation fails) and does not apply the
\* default security transport: Insecure stays true and no security transport is
\* registered. The pass applies the default security transport exactly when
\* Insecure is false and no security transport was registered.
C15_InsecureSkipsDefaultSecurity ==
    AfterFallback =>
        /\ last.hist.noSec =>
               /\ err \in {NilErr, ErrKeyGen}
               /\ ~PassAppliedSecurity
               /\ cfg.Insecure
               /\ GoLen(cfg.SecurityTransports) = 0
        /\ PassAppliedSecurity =
               (~last.pre.Insecure /\ GoLen(last.pre.SecurityTransports) = 0)

\* The final pass went through after NoSecurity.
C15_Witness ==
    /\ phase = "assembling"
    /\ last.hist.noSec
    /\ cfg.Insecure /\ cfg.PeerKey = "rsa2048"

\* C18: a FallbackDefaults pass returns nil, the key-generation error or the
\* address-parsing error; none of the options it applies returns a "cannot
\* specify multiple" error or the security/insecure conflict error.
C18_FallbackNeverConflicts ==
    AfterFallback =>
        /\ err \in {NilErr, ErrKeyGen, ErrParse}
        /\ \A c \in LastCalls : c.err \notin MultiErrs \cup {ErrInsecure, ErrShape}

\* The pass failed in key generation, on a Config the caller had made insecure
\* and given a peerstore.
C18_Witness ==
    /\ AfterFallback /\ phase = "aborted" /\ err = ErrKeyGen
    /\ last.pre.Insecure \/ last.pre.Peerstore # Nil

\* C19: after a FallbackDefaults pass that returned nil every predicate of the
\* table is false and another pass returns nil applying nothing; a pass run
\* after an earlier successful pass leaves the Config as it found it.
C19_FallbackIdempotent ==
    /\ (AfterFallback /\ err = NilErr) =>
           /\ \A i \in 1..NumDefaults : ~DefaultsFallback(i, cfg)
           /\ \A gen \in KeyGens :
                  LET r == FallbackDefaults(gen, cfg) IN
                  /\ r.cfg = cfg /\ r.err = NilErr
                  /\ \A i \in DOMAIN r.calls : r.calls[i].opt = "FallbackDefaults"
    /\ (AfterFallback /\ last.hist.fellBack) =>
           (cfg = last.pre /\ err = NilErr /\ EntriesApplied = {})

\* New's pass ran after the caller's own FallbackDefaults.
C19_Witness ==
    /\ phase = "assembling"
    /\ last.hist.fellBack
    /\ cfg = last.pre /\ GoLen(cfg.Muxers) = 2

\* C20: after a FallbackDefaults pass that returned nil the Config holds an
\* identity key and a peerstore, at least one muxer, a transport slice that is
\* not nil, and either Insecure or at least one security transport, not both.
C20_AssembledConfigComplete ==
    (AfterFallback /\ err = NilErr) =>
        /\ cfg.PeerKey # Nil
        /\ cfg.Peerstore # Nil
        /\ GoLen(cfg.Muxers) > 0
        /\ ~cfg.Transports.isnil
        /\ cfg.Insecure # (GoLen(cfg.SecurityTransports) > 0)

\* An insecure Config with no transports went to the assembler.
C20_Witness ==
    /\ phase = "assembling"
    /\ cfg.Insecure /\ GoLen(cfg.SecurityTransports) = 0
    /\ ~cfg.Transports.isnil /\ GoLen(cfg.Transports) = 0
    /\ cfg.Peerstore = "pstore.NewPeerstore()"

\* ------------------------------------------------------------------ makeRandomHost
\* The options of makeRandomHost, each applied once, in any order (the NAT port
\* map may be left out), followed by the pass New appends.
HostKeys == {"v1", "v2"}
HostAddrStrings == <<"/ip4/127.0.0.1/tcp/9000">>

\* One iteration of cfg.Apply(opts...) over the options of makeRandomHost.
HostApply(opt, val, r) ==
    /\ phase = "applying"
    /\ cfg' = r.cfg
    /\ err' = r.err
    /\ phase' = IF r.err = NilErr THEN "applying" ELSE "aborted"
    /\ n' = n + 1
    /\ last' = [opt |-> opt, val |-> val, bad |-> FALSE, final |-> FALSE,
                pre |-> cfg, hist |-> hist, calls |-> r.calls]
    /\ hist' = HistAfter(hist, r.calls)

HostListenAddrStrings ==
    /\ ~hist.listenOpt
    /\ HostApply("ListenAddrStrings", "", ListenAddrStrings(HostAddrStrings, cfg))
HostIdentity ==
    /\ hist.first["PeerKey"] = "none"
    /\ \E sk \in HostKeys : HostApply("Identity", sk, Identity(sk, cfg))
HostDefaultTransports ==
    /\ ~hist.tptOpt
    /\ HostApply("DefaultTransports", "", DefaultTransports(cfg))
HostDefaultMuxers ==
    /\ ~hist.muxOpt
    /\ HostApply("DefaultMuxers", "", DefaultMuxers(cfg))
HostDefaultSecurity ==
    /\ ~hist.secOpt
    /\ HostApply("DefaultSecurity", "", DefaultSecurity(cfg))
HostNATPortMap ==
    /\ hist.first["NATManager"] = "none"
    /\ HostApply("NATManager", "bhost.NewNATManager", NATPortMap(cfg))

\* The five options the scenario names have been applied.
HostOptionsApplied ==
    /\ hist.listenOpt /\ hist.first["PeerKey"] # "none"
    /\ hist.tptOpt /\ hist.muxOpt /\ hist.secOpt

HostFinalFallback == HostOptionsApplied /\ ApplyFinalFallback

HostInit == Init

HostNext ==
    \/ HostListenAddrStrings \/ HostIdentity
    \/ HostDefaultTransports \/ HostDefaultMuxers \/ HostDefaultSecurity
    \/ HostNATPortMap
    \/ HostFinalFallback

SpecHost == HostInit /\ [][HostNext]_vars

\* C14: building with one loopback listen address, an explicit identity,
\* DefaultTransports, DefaultMuxers and DefaultSecurity never fails, and the
\* Config that goes to the assembler holds the explicit key, the default
\* transports, muxers and security transport once each, exactly the listen
\* address given and Insecure false; the pass added none of them again.
C14_HostScenarioBuilds ==
    /\ phase # "aborted" /\ err = NilErr
    /\ phase = "assembling" =>
           /\ cfg.PeerKey \in HostKeys /\ cfg.PeerKey = last.hist.first["PeerKey"]
           /\ cfg.Transports = ExtendedByDefaults(ZeroConfig).Transports
           /\ cfg.Muxers = ExtendedByDefaults(ZeroConfig).Muxers
           /\ cfg.SecurityTransports = ExtendedByDefaults(ZeroConfig).SecurityTransports
           /\ cfg.ListenAddrs = [isnil |-> FALSE, elems |-> <<loopbackListenAddr>>]
           /\ ~cfg.Insecure
           /\ EntriesApplied = {TableEntry("DefaultPeerstore")}
           /\ \A i \in 1..5 : cfg[EntryField(i)] = last.pre[EntryField(i)]

\* The host of makeRandomHost, NAT port map included, went to the assembler.
C14_Witness ==
    /\ phase = "assembling" /\ n = 6
    /\ cfg.NATManager = "bhost.NewNATManager"
    /\ cfg.PeerKey = "v2" /\ GoLen(cfg.Transports) = 2

\* ------------------------------------------------------------------ one pass
\* One FallbackDefaults pass from any Config the options can have built, with
\* the table entries processed in any order.
StartListenAddrs == {NilSlice, EmptySlice, [isnil |-> FALSE, elems |-> <<loopbackListenAddr>>]}
StartTransports ==
    {NilSlice, EmptySlice, [isnil |-> FALSE, elems |-> <<<<"TptC", "custom.NewTransport">>>>]}
StartMuxers ==
    {NilSlice, [isnil |-> FALSE,
                elems |-> <<[MuxC |-> <<"MuxC", "yamux.DefaultTransport">>, ID |-> "/yamux/1.0.0"]>>]}
\* Security: nothing chosen, one security transport, or NoSecurity.
StartSecurity ==
    {[Insecure |-> FALSE, SecurityTransports |-> NilSlice],
     [Insecure |-> FALSE,
      SecurityTransports |-> [isnil |-> FALSE,
                              elems |-> <<[SecC |-> <<"SecC", "secio.New">>, ID |-> "/secio/1.0.0"]>>]],
     [Insecure |-> TRUE, SecurityTransports |-> NilSlice]}
StartKeys == {Nil, "v1"}
StartPeerstores == {Nil, "v1"}

StartConfigs ==
    {[ZeroConfig EXCEPT !.ListenAddrs = la, !.Transports = tp, !.Muxers = mx,
                        !.Insecure = sec.Insecure,
                        !.SecurityTransports = sec.SecurityTransports,
                        !.PeerKey = sk, !.Peerstore = ps] :
        la \in StartListenAddrs, tp \in StartTransports, mx \in StartMuxers,
        sec \in StartSecurity, sk \in StartKeys, ps \in StartPeerstores}

\* The orders in which the table can be walked; TableOrder is the one of the code.
TableOrders == Permutations(1..NumDefaults)
TableOrder == [i \in 1..NumDefaults |-> i]

\* The loop of FallbackDefaults walking the table in the given order, from position k.
RECURSIVE FallbackDefaultsInOrder(_, _, _, _)
FallbackDefaultsInOrder(order, k, gen, start) ==
    IF k > NumDefaults THEN [cfg |-> start, err |-> NilErr, calls |-> <<>>]
    ELSE IF ~DefaultsFallback(order[k], start)
         THEN FallbackDefaultsInOrder(order, k + 1, gen, start)
    ELSE LET r == DefaultsOpt(order[k], gen, start) IN
         AndThen(r, FallbackDefaultsInOrder(order, k + 1, gen, r.cfg))

\* The loop of FallbackDefaults with every predicate evaluated on snap, the
\* Config at the start of the pass, from entry i.
RECURSIVE FallbackDefaultsSnapshot(_, _, _, _)
FallbackDefaultsSnapshot(i, gen, snap, start) ==
    IF i > NumDefaults THEN [cfg |-> start, err |-> NilErr, calls |-> <<>>]
    ELSE IF ~DefaultsFallback(i, snap)
         THEN FallbackDefaultsSnapshot(i + 1, gen, snap, start)
    ELSE LET r == DefaultsOpt(i, gen, start) IN
         AndThen(r, FallbackDefaultsSnapshot(i + 1, gen, snap, r.cfg))

PassInit ==
    /\ cfg \in StartConfigs
    /\ err = NilErr
    /\ phase = "applying"
    /\ n = 0
    /\ last = NoLast
    /\ hist = NoHist

PassInOrder ==
    /\ phase = "applying"
    /\ \E order \in TableOrders, gen \in KeyGens :
         LET r == Returned("FallbackDefaults", FallbackDefaultsInOrder(order, 1, gen, cfg)) IN
         /\ cfg' = r.cfg
         /\ err' = r.err
         /\ phase' = IF r.err = NilErr THEN "assembling" ELSE "aborted"
         /\ last' = [opt |-> "FallbackDefaults", val |-> "", bad |-> FALSE, final |-> TRUE,
                     pre |-> cfg, hist |-> hist, calls |-> r.calls,
                     order |-> order, gen |-> gen]
         /\ hist' = HistAfter(hist, r.calls)
         /\ UNCHANGED n

PassNext == PassInOrder

SpecPass == PassInit /\ [][PassNext]_vars

\* Position of entry i in the order of the last pass.
LastPos(i) == CHOOSE k \in 1..NumDefaults : last.order[k] = i
\* What the pass of the code returns from the Config the last pass started from.
LastInTableOrder == FallbackDefaults(last.gen, last.pre)

\* C16 as stated: from any starting Config the pass gives the same result
\* whatever the order in which the table entries are processed.
C16_AnyOrderSameResult ==
    AfterFallback =>
        (cfg = LastInTableOrder.cfg /\ err = LastInTableOrder.err)

\* C16 amended: the pass returns the same error and, when it returns nil, gives
\* the same Config in every order that processes the listen-address entry
\* before the transport entry; a pass that processes the transport entry first
\* and returns nil gives a Config that had no transports and no listen addresses
\* the default transports but not the default listen addresses.
C16_OrderMattersOnlyForListenAddrs ==
    AfterFallback =>
        /\ LastPos(1) < LastPos(2) =>
               /\ err = LastInTableOrder.err
               /\ err = NilErr => cfg = LastInTableOrder.cfg
        /\ (LastPos(2) < LastPos(1) /\ err = NilErr
                /\ last.pre.Transports.isnil /\ last.pre.ListenAddrs.isnil) =>
               /\ cfg.ListenAddrs.isnil
               /\ GoLen(cfg.Transports) = 2
               /\ GoLen(LastInTableOrder.cfg.ListenAddrs) = 2

\* The table walked backwards except for the first two entries, from the zero Config.
C16_Witness ==
    /\ phase = "assembling"
    /\ last.pre = ZeroConfig
    /\ last.order = <<6, 5, 4, 3, 1, 2>>
    /\ GoLen(cfg.ListenAddrs) = 2 /\ cfg.Peerstore # Nil

\* C17: the pass of the code evaluates each predicate on the Config as the
\* earlier entries left it, and from every starting Config this returns the
\* same Config and error as evaluating every predicate on the Config at the
\* start of the pass and applying the selected defaults in table order.
C17_SequentialEqualsSnapshot ==
    (AfterFallback /\ last.order = TableOrder) =>
        LET s == FallbackDefaultsSnapshot(1, last.gen, last.pre, last.pre) IN
        /\ cfg = LastInTableOrder.cfg /\ err = LastInTableOrder.err
        /\ cfg = s.cfg /\ err = s.err
        /\ Append(s.calls, Call("FallbackDefaults", "", s.err)) = last.calls

\* The pass in table order filled the listen addresses and then, on the Config
\* so mutated, found the transports still unset.
C17_Witness ==
    /\ phase = "assembling"
    /\ last.order = TableOrder
    /\ last.pre.ListenAddrs.isnil /\ last.pre.Transports.isnil
    /\ GoLen(cfg.ListenAddrs) = 2 /\ GoLen(cfg.Transports) = 2

====
